---- MODULE Spec2Model ----
(***************************************************************************)
(* A model of traffic_light_sim.py: the User / Lane / Source / Simulation  *)
(* classes, the two-phase scheduler Simulation.play / light_session and    *)
(* the statistics of Simulation.run.                                       *)
(*                                                                         *)
(* intersection_time is a Python float until the User is popped (line 94   *)
(* adds clear_time / overlaps, a true division), so times are modelled as  *)
(* IEEE-754 doubles: a non-negative multiple of 2^-53 kept in three fields *)
(* ip + fh * 2^-26 + fl * 2^-53, every sum rounded to 53 significant bits, *)
(* ties to even, exactly as the addition of two doubles is.                *)
(***************************************************************************)
EXTENDS Integers, Sequences, FiniteSets, TLC

(* ---- Constants (lines 5-27) ---- *)

CAR_DELAY == 1
PEDESTRIAN_DELAY == 2
CYCLIST_DELAY == 10
RT_DELAY == 60 * 4

CAR_CLEAR == 1
RT_CLEAR == 2
CYCLIST_CLEAR == 5
PEDESTRIAN_CLEAR == 15

CAR_OVERLAP == 2
RT_OVERLAP == 1
CYCLIST_OVERLAP == 6
PEDESTRIAN_OVERLAP == 18

LIGHT_TIME == 30

(* ---- Enums (lines 31-44), in declaration order ---- *)

\* The members of Direction listed axis by axis.
DirectionByAxis == <<"NORTH", "SOUTH", "EAST", "WEST">>

Direction == <<"NORTH", "EAST", "SOUTH", "WEST">>

LightPhase == <<"NORTH_SOUTH", "EAST_WEST">>

UserCategory == <<"CAR", "RT", "CYCLIST", "PEDESTRIAN">>

Directions == {Direction[i] : i \in 1..Len(Direction)}

Categories == {UserCategory[i] : i \in 1..Len(UserCategory)}

clear_time(c) ==
  CASE c = "CAR" -> CAR_CLEAR
    [] c = "RT" -> RT_CLEAR
    [] c = "CYCLIST" -> CYCLIST_CLEAR
    [] c = "PEDESTRIAN" -> PEDESTRIAN_CLEAR

period(c) ==
  CASE c = "CAR" -> CAR_DELAY
    [] c = "RT" -> RT_DELAY
    [] c = "CYCLIST" -> CYCLIST_DELAY
    [] c = "PEDESTRIAN" -> PEDESTRIAN_DELAY

overlaps(c) ==
  CASE c = "CAR" -> CAR_OVERLAP
    [] c = "RT" -> RT_OVERLAP
    [] c = "CYCLIST" -> CYCLIST_OVERLAP
    [] c = "PEDESTRIAN" -> PEDESTRIAN_OVERLAP

(* ---- Python numbers ---- *)

HiBase == 2^26

LoBase == 2^27

\* floor(log2(n)) for 1 <= n < 2^16.
Ilog2(n) ==
  IF n < 2^8
  THEN IF n < 2^4
       THEN IF n < 2^2 THEN (IF n < 2 THEN 0 ELSE 1) ELSE (IF n < 2^3 THEN 2 ELSE 3)
       ELSE IF n < 2^6 THEN (IF n < 2^5 THEN 4 ELSE 5) ELSE (IF n < 2^7 THEN 6 ELSE 7)
  ELSE IF n < 2^12
       THEN IF n < 2^10 THEN (IF n < 2^9 THEN 8 ELSE 9) ELSE (IF n < 2^11 THEN 10 ELSE 11)
       ELSE IF n < 2^14 THEN (IF n < 2^13 THEN 12 ELSE 13) ELSE (IF n < 2^15 THEN 14 ELSE 15)

\* The double that is the integer n.
FInt(n) == [ip |-> n, fh |-> 0, fl |-> 0]

\* Round the exact value ip + fh/2^26 + fl/2^53 (+ a sticky rest below the
\* last bit when sticky is TRUE) to the nearest double, ties to even.  A
\* value in [2^e, 2^(e+1)) has its last mantissa bit at 2^(e-52), that is
\* q = 2^(e+1) units of 2^-53; every multiple of 2^-53 below 1 is a double.
FRound53(ip, fh, fl, sticky) ==
  LET q == IF ip = 0 THEN 1 ELSE 2^(Ilog2(ip) + 1)
      r == fl % q
      base == fl - r
      odd == (base \div q) % 2 = 1
      up == \/ 2 * r > q
            \/ 2 * r = q /\ (sticky \/ odd)
      fl1 == IF up THEN base + q ELSE base
      fh1 == fh + (fl1 \div LoBase)
  IN [ip |-> ip + (fh1 \div HiBase), fh |-> fh1 % HiBase, fl |-> fl1 % LoBase]

\* x + y on doubles (the += of lines 94 and 104).
FAdd(x, y) ==
  LET lo == x.fl + y.fl
      hi == x.fh + y.fh + (lo \div LoBase)
  IN FRound53(x.ip + y.ip + (hi \div HiBase), hi % HiBase, lo % LoBase, FALSE)

\* The next n binary digits of rem / b, and the rest (rem < b < 2^16, n < 15).
FracBits(rem, b, n) == [q |-> (rem * 2^n) \div b, r |-> (rem * 2^n) % b]

\* a / b on two positive integers below 2^16 (Python true division), for a
\* quotient of at least 1/2, which every clear_time / overlaps of lines
\* 15-24 is: the 53 digits after the point in four runs, then the rounding.
FDiv(a, b) ==
  LET h1 == FracBits(a % b, b, 13)
      h2 == FracBits(h1.r, b, 13)
      l1 == FracBits(h2.r, b, 13)
      l2 == FracBits(l1.r, b, 14)
      fh == h1.q * 2^13 + h2.q
      fl == l1.q * 2^14 + l2.q
  IN IF a \div b = 0
     THEN \* the rest below 2^-53 is l2.r / b: above, at or below one half
          LET up == 2 * l2.r > b \/ (2 * l2.r = b /\ fl % 2 = 1)
              fl1 == fl + (IF up THEN 1 ELSE 0)
              fh1 == fh + (fl1 \div LoBase)
          IN [ip |-> fh1 \div HiBase, fh |-> fh1 % HiBase, fl |-> fl1 % LoBase]
     ELSE FRound53(a \div b, fh, fl, l2.r # 0)

\* x <= y and x < y on doubles.
FLe(x, y) ==
  \/ x.ip < y.ip
  \/ x.ip = y.ip /\ x.fh < y.fh
  \/ x.ip = y.ip /\ x.fh = y.fh /\ x.fl <= y.fl

FLt(x, y) == FLe(x, y) /\ x # y

\* round(x) of a double: the nearest integer, ties to the even one.
PyRound(x) ==
  LET half == HiBase \div 2
      above == x.fh > half \/ (x.fh = half /\ x.fl > 0)
      tie == x.fh = half /\ x.fl = 0
  IN IF above \/ (tie /\ x.ip % 2 = 1) THEN x.ip + 1 ELSE x.ip

\* round(a / b) for integers a >= 0, b > 0 small enough that the double a / b
\* is a tie only when the quotient is: nearest integer, ties to even.
RoundDiv(a, b) ==
  LET q == a \div b
      r == a % b
  IN IF 2 * r > b \/ (2 * r = b /\ q % 2 = 1) THEN q + 1 ELSE q

\* math.floor(a / b) for positive integers whose quotient a / b is exact
\* or far from an integer boundary.
FloorDiv(a, b) == a \div b

(* ---- User (lines 66-75) ---- *)

\* User.__init__
NewUser(c) == [category |-> c, intersection_time |-> FInt(0), cleared |-> FALSE]

\* User.wait_time, for a User whose time is an integer (every cleared User).
wait_time(u) == u.intersection_time.ip - clear_time(u.category)

(* ---- Lane (lines 78-104) ---- *)
(* The User objects live in a sequence us (the heap); a Lane is            *)
(* [category, users], users being the sequence of the heap positions of    *)
(* the queued Users.                                                       *)

\* Lane.__init__
NewLane(c) == [category |-> c, users |-> <<>>]

Queued(lane) == {lane.users[j] : j \in 1..Len(lane.users)}

\* Lane.add without the test of lines 86-87.
LaneAddUnchecked(lane, uid, ucat) ==
  [err |-> FALSE, lane |-> [lane EXCEPT !.users = Append(@, uid)]]

\* Lane.add of the User at heap position uid, of category ucat.
LaneAdd(lane, uid, ucat) ==
  IF ucat # lane.category
  THEN [err |-> TRUE, lane |-> lane]
  ELSE [err |-> FALSE, lane |-> [lane EXCEPT !.users = Append(@, uid)]]

\* clear_time // overlaps for the division of line 94: the increment
\* floored before it is accumulated.
ShareFloored == [c \in Categories |-> FInt(clear_time(c) \div overlaps(c))]

\* clear_time / overlaps of line 94, per category.
Share == [c \in Categories |-> FDiv(clear_time(c), overlaps(c))]

\* Lane.discharge with line 98 rounding the share of the last call instead
\* of the accumulated time.
LaneDischargeRoundsShare(us, lane) ==
  LET inc == Share[lane.category]
      q == Queued(lane)
      us1 == [i \in 1..Len(us) |->
                IF i \in q
                THEN [us[i] EXCEPT !.intersection_time = FAdd(@, inc)]
                ELSE us[i]]
  IN IF lane.users # <<>>
     THEN LET h == Head(lane.users)
          IN [users |-> [us1 EXCEPT ![h] =
                           [@ EXCEPT !.intersection_time = FInt(PyRound(inc)),
                                     !.cleared = TRUE]],
              lane |-> [lane EXCEPT !.users = Tail(@)]]
     ELSE [users |-> us1, lane |-> lane]

\* Lane.discharge without line 99.
LaneDischargeNoClear(us, lane) ==
  LET inc == Share[lane.category]
      q == Queued(lane)
      us1 == [i \in 1..Len(us) |->
                IF i \in q
                THEN [us[i] EXCEPT !.intersection_time = FAdd(@, inc)]
                ELSE us[i]]
  IN IF lane.users # <<>>
     THEN LET h == Head(lane.users)
          IN [users |-> [us1 EXCEPT ![h] =
                           [@ EXCEPT !.intersection_time = FInt(PyRound(@))]],
              lane |-> [lane EXCEPT !.users = Tail(@)]]
     ELSE [users |-> us1, lane |-> lane]

\* Lane.discharge with pop() for the pop(0) of line 97.
LaneDischargePopsLast(us, lane) ==
  LET inc == Share[lane.category]
      q == Queued(lane)
      us1 == [i \in 1..Len(us) |->
                IF i \in q
                THEN [us[i] EXCEPT !.intersection_time = FAdd(@, inc)]
                ELSE us[i]]
  IN IF lane.users # <<>>
     THEN LET h == lane.users[Len(lane.users)]
          IN [users |-> [us1 EXCEPT ![h] =
                           [@ EXCEPT !.intersection_time = FInt(PyRound(@)),
                                     !.cleared = TRUE]],
              lane |-> [lane EXCEPT !.users = SubSeq(@, 1, Len(@) - 1)]]
     ELSE [users |-> us1, lane |-> lane]

\* Lane.discharge without line 98.
LaneDischargeNoRound(us, lane) ==
  LET inc == Share[lane.category]
      q == Queued(lane)
      us1 == [i \in 1..Len(us) |->
                IF i \in q
                THEN [us[i] EXCEPT !.intersection_time = FAdd(@, inc)]
                ELSE us[i]]
  IN IF lane.users # <<>>
     THEN LET h == Head(lane.users)
          IN [users |-> [us1 EXCEPT ![h] = [@ EXCEPT !.cleared = TRUE]],
              lane |-> [lane EXCEPT !.users = Tail(@)]]
     ELSE [users |-> us1, lane |-> lane]

\* Lane.discharge
LaneDischarge(us, lane) ==
  LET inc == Share[lane.category]
      q == Queued(lane)
      us1 == [i \in 1..Len(us) |->
                IF i \in q
                THEN [us[i] EXCEPT !.intersection_time = FAdd(@, inc)]
                ELSE us[i]]
  IN IF lane.users # <<>>
     THEN LET h == Head(lane.users)
          IN [users |-> [us1 EXCEPT ![h] =
                           [@ EXCEPT !.intersection_time = FInt(PyRound(@)),
                                     !.cleared = TRUE]],
              lane |-> [lane EXCEPT !.users = Tail(@)]]
     ELSE [users |-> us1, lane |-> lane]

\* Lane.hold adding LIGHT_TIME to every User that is not cleared, queued in
\* this lane or not.
LaneHoldEveryUser(us, lane) ==
  [i \in 1..Len(us) |->
     IF ~us[i].cleared
     THEN [us[i] EXCEPT !.intersection_time = FAdd(@, FInt(LIGHT_TIME))]
     ELSE us[i]]

\* Lane.hold
LaneHold(us, lane) ==
  LET q == Queued(lane)
  IN [i \in 1..Len(us) |->
        IF i \in q
        THEN [us[i] EXCEPT !.intersection_time = FAdd(@, FInt(LIGHT_TIME))]
        ELSE us[i]]

(* ---- Source (lines 108-141) ---- *)
(* A lane lookup is the sequence of the <<category, num>> items of the     *)
(* dict, in insertion order; a Source is the sequence of its lanes.        *)

RECURSIVE LanesOf(_)
LanesOf(lookup) ==
  IF lookup = <<>> THEN <<>>
  ELSE LET item == lookup[Len(lookup)]
       IN LanesOf(SubSeq(lookup, 1, Len(lookup) - 1))
            \o [i \in 1..item[2] |-> NewLane(item[1])]

\* Source.__init__
NewSource(lookup) == LanesOf(lookup)

\* The loop of lines 122-126 with <= for < in line 125.
RECURSIVE DestinationLastOnTie(_, _, _, _)
DestinationLastOnTie(src, ucat, i, dest) ==
  IF i > Len(src) THEN dest
  ELSE IF src[i].category # ucat THEN DestinationLastOnTie(src, ucat, i + 1, dest)
  ELSE IF dest = 0 \/ Len(src[i].users) <= Len(src[dest].users)
       THEN DestinationLastOnTie(src, ucat, i + 1, i)
       ELSE DestinationLastOnTie(src, ucat, i + 1, dest)

\* The loop of lines 122-126 without the length test of line 125: the first
\* lane of the category is kept.
RECURSIVE DestinationFirstLane(_, _, _, _)
DestinationFirstLane(src, ucat, i, dest) ==
  IF i > Len(src) THEN dest
  ELSE IF src[i].category # ucat THEN DestinationFirstLane(src, ucat, i + 1, dest)
  ELSE IF dest = 0
       THEN DestinationFirstLane(src, ucat, i + 1, i)
       ELSE DestinationFirstLane(src, ucat, i + 1, dest)

\* The loop of lines 122-126 from lane i on: destination is 0 for None.
RECURSIVE Destination(_, _, _, _)
Destination(src, ucat, i, dest) ==
  IF i > Len(src) THEN dest
  ELSE IF src[i].category # ucat THEN Destination(src, ucat, i + 1, dest)
  ELSE IF dest = 0 \/ Len(src[i].users) < Len(src[dest].users)
       THEN Destination(src, ucat, i + 1, i)
       ELSE Destination(src, ucat, i + 1, dest)

\* Source.add returning True on every path.
SourceAddAlwaysTrue(src, uid, ucat) ==
  LET dest == Destination(src, ucat, 1, 0)
  IN IF dest = 0 THEN [ok |-> TRUE, lanes |-> src]
     ELSE [ok |-> TRUE,
           lanes |-> [src EXCEPT ![dest] = LaneAdd(@, uid, ucat).lane]]

\* Source.add
SourceAdd(src, uid, ucat) ==
  LET dest == Destination(src, ucat, 1, 0)
  IN IF dest = 0 THEN [ok |-> FALSE, lanes |-> src]
     ELSE [ok |-> TRUE,
           lanes |-> [src EXCEPT ![dest] = LaneAdd(@, uid, ucat).lane]]

\* Source.hold: the loop of lines 134-135 over lanes 1..i.
RECURSIVE HoldLanes(_, _, _)
HoldLanes(us, src, i) ==
  IF i = 0 THEN us ELSE LaneHold(HoldLanes(us, src, i - 1), src[i])

SourceHold(us, src) == HoldLanes(us, src, Len(src))

\* Source.discharge: the loop of lines 139-141 over lanes 1..i; called is the
\* set of the lanes whose Lane.discharge was called.
RECURSIVE DischargeLanes(_, _, _, _)
DischargeLanes(us, src, c, i) ==
  IF i = 0 THEN [users |-> us, lanes |-> src, called |-> {}]
  ELSE LET p == DischargeLanes(us, src, c, i - 1)
       IN IF src[i].category = c
          THEN LET r == LaneDischarge(p.users, p.lanes[i])
               IN [users |-> r.users,
                   lanes |-> [p.lanes EXCEPT ![i] = r.lane],
                   called |-> p.called \cup {i}]
          ELSE p

SourceDischarge(us, src, c) == DischargeLanes(us, src, c, Len(src))

(* ---- Bounds and inputs ---- *)

\* random.random() returns a multiple of 2^-53 in [0, 1); the draws of the
\* model are the multiples u / DrawDen of 2^-DrawBits listed in Draws, for
\* which expected * 2 * U is computed without rounding error.
DrawBits == 7

DrawDen == 2^DrawBits

Draws == {0, DrawDen \div 40, DrawDen - 1}

\* The longest run has MaxPairs phase pairs.
MaxPairs == 2

NoLanes == [d \in Directions |-> <<>>]

CfgRT == [NoLanes EXCEPT !["SOUTH"] = <<<<"CAR", 0>>, <<"RT", 1>>>>]

CfgCars == [NoLanes EXCEPT !["EAST"] = <<<<"CAR", 2>>>>,
                           !["WEST"] = <<<<"CAR", 1>>>>]

CfgWalk == [NoLanes EXCEPT !["NORTH"] = <<<<"CYCLIST", 1>>>>,
                           !["EAST"] = <<<<"PEDESTRIAN", 1>>>>]

StopTimes ==
  {-2 * LIGHT_TIME, -1, 0, 1}
    \cup {2 * LIGHT_TIME * k : k \in 1..MaxPairs}
    \cup {2 * LIGHT_TIME * k + 1 : k \in 1..(MaxPairs - 1)}

\* The runs of the model: Simulation(stop_time, direction_lane_lookup).
Scenarios ==
  [lookup : {NoLanes}, stop_time : StopTimes]
    \cup [lookup : {CfgRT}, stop_time : {2 * LIGHT_TIME * (MaxPairs - 1) + 1}]
    \cup [lookup : {CfgCars}, stop_time : {2 * LIGHT_TIME}]
    \cup [lookup : {CfgWalk}, stop_time : {1}]

(* ---- Simulation (lines 144-225) ---- *)

VARIABLES
  stop_time,   \* Simulation.stop_time
  time,        \* Simulation.time
  users,       \* Simulation.users: the User objects, in creation order
  sources,     \* Simulation.sources: direction -> the lanes of its Source
  pc,          \* where the run is: "while", "arrive", "hold", "discharge",
               \* "ret", "done", "returned"; "api" in the Source harness
  phase,       \* the phase argument of the running light_session
  si,          \* position of the source loop the session is in
  ci,          \* position of the category loop the session is in
  qi,          \* i of the loop of lines 184 / 192
  result,      \* what run() returned
  ret,         \* history: what the add calls of the last step returned
  log,         \* history: the phases of the sessions started so far
  held,        \* history: the Sources held in this session
  discharged,  \* history: the Sources discharged in this session
  startLen,    \* history: queue lengths when the discharges of this session began
  calls,       \* history: Lane.discharge calls per lane in this session
  first,       \* history: Len(users) when this session began
  holds,       \* harness: number of Source.hold calls made
  twin         \* harness: the draws and the states of a run, for its replay

vars == <<stop_time, time, users, sources, pc, phase, si, ci, qi, result, ret,
          log, held, discharged, startLen, calls, first, holds, twin>>

hist == <<log, held, discharged, startLen, calls, first>>

Lengths(srcs) == [d \in Directions |-> [l \in 1..Len(srcs[d]) |-> Len(srcs[d][l].users)]]

NoCalls(srcs) == [d \in Directions |-> [l \in 1..Len(srcs[d]) |-> 0]]

\* The program state: the fields of the Simulation object and the position
\* of the run in play / light_session / run.
Snapshot == <<stop_time, time, users, sources, pc, phase, si, ci, qi, result>>

\* No run is recorded.
TwinOff == [mode |-> "off", lookup |-> <<>>, tape |-> <<>>, trace |-> <<>>,
            pos |-> 0, drawn |-> 0]

\* What a step of the run leaves on the record.  A recorded run appends the
\* random.random() value it consumed (draw is <<>> when the step made no
\* call of random.random(), <<direction, category, u>> when it made one) and
\* the state it reached; a replay counts its steps and its draws; in mode
\* "session" the record is the state in which the running session began.
Observe(draw) ==
  twin' = CASE twin.mode = "off" -> twin
            [] twin.mode = "record" ->
                 [twin EXCEPT !.tape = IF draw = <<>> THEN @ ELSE Append(@, draw),
                              !.trace = Append(@, Snapshot')]
            [] twin.mode = "replay" ->
                 [twin EXCEPT !.pos = @ + 1,
                              !.drawn = IF draw = <<>> THEN @ ELSE @ + 1]
            [] twin.mode = "session" ->
                 IF pc \in {"while", "ret"} /\ pc' \notin {"while", "done"}
                 THEN [twin EXCEPT !.trace = <<Snapshot'>>]
                 ELSE twin

\* Simulation.__init__
Construct(sc) ==
  /\ stop_time = sc.stop_time
  /\ time = 0
  /\ users = <<>>
  /\ sources = [d \in Directions |-> NewSource(sc.lookup[d])]
  /\ pc = "while"
  /\ phase = "NORTH_SOUTH"
  /\ si = 1 /\ ci = 1 /\ qi = 0
  /\ result = <<>>
  /\ ret = "none"
  /\ log = <<>>
  /\ held = {} /\ discharged = {}
  /\ startLen = Lengths(sources)
  /\ calls = NoCalls(sources)
  /\ first = 0
  /\ holds = 0

Init == \E sc \in Scenarios : Construct(sc) /\ twin = TwinOff

\* Lines 187-188 holding the sources of lines 178-179.
RedAxisNorthSouth(ph) == <<"NORTH", "SOUTH">>

\* The sources a session holds and the ones it discharges (lines 176-193).
RedAxis(ph) ==
  IF ph = "EAST_WEST" THEN <<"NORTH", "SOUTH">> ELSE <<"EAST", "WEST">>

GreenAxis(ph) ==
  IF ph = "EAST_WEST" THEN <<"EAST", "WEST">> ELSE <<"NORTH", "SOUTH">>

\* Lines 162-171 without the branch of lines 164-169.
NumberAddedNoRareBranch(c, u) ==
  RoundDiv(LIGHT_TIME * 2 * u, period(c) * DrawDen)

\* Lines 162-171 for the draw u / DrawDen.  expected = LIGHT_TIME / period
\* is 30, 15, 3 or 0.125, all exact doubles.
NumberAdded(c, u) ==
  IF 10 * LIGHT_TIME < 8 * period(c)
  THEN IF u * period(c) < LIGHT_TIME * DrawDen THEN 1 ELSE 0
  ELSE RoundDiv(LIGHT_TIME * 2 * u, period(c) * DrawDen)

\* Lines 173-175 without the test of line 174: the User is kept in the list
\* whatever Source.add returned.
AddUserKeepsDropped(w, c) ==
  LET r == SourceAdd(w.lanes, Len(w.users) + 1, c)
  IN [users |-> Append(w.users, NewUser(c)),
      lanes |-> IF r.ok THEN r.lanes ELSE w.lanes,
      ok |-> r.ok]

\* Lines 173-175: one User created, routed, and kept if it was routed; ok is
\* what Source.add returned.
AddUser(w, c) ==
  LET r == SourceAdd(w.lanes, Len(w.users) + 1, c)
  IN IF r.ok
     THEN [users |-> Append(w.users, NewUser(c)), lanes |-> r.lanes, ok |-> TRUE]
     ELSE [users |-> w.users, lanes |-> w.lanes, ok |-> FALSE]

\* The loop of line 172: n times AddUser, the first half of the iterations
\* and then the rest.  The test on half has the first half evaluated before
\* the second is entered (it is TRUE whatever half is).
RECURSIVE AddUsers(_, _, _)
AddUsers(w, c, n) ==
  IF n = 0 THEN w
  ELSE IF n = 1 THEN AddUser(w, c)
  ELSE LET half == AddUsers(w, c, n \div 2)
       IN IF half.ok \in BOOLEAN THEN AddUsers(half, c, n - (n \div 2)) ELSE half

\* Line 183 / 191 without the overlaps.
NumClearedNoOverlap(c) == FloorDiv(LIGHT_TIME, clear_time(c))

\* Line 183 / 191.
NumCleared(c) == FloorDiv(LIGHT_TIME * overlaps(c), clear_time(c))

\* light_session with the holds written before the arrivals.
SessionOrderHoldFirst == <<"hold", "arrive", "discharge">>

\* The three blocks of light_session in the order they are written: lines
\* 160-175, then the two holds (178-179 / 187-188), then the discharge loops
\* (181-185 / 189-193).
SessionOrder == <<"arrive", "hold", "discharge">>

\* The block after block b, "ret" after the last one.
NextBlock(b) ==
  LET k == CHOOSE j \in 1..Len(SessionOrder) : SessionOrder[j] = b
  IN IF k < Len(SessionOrder) THEN SessionOrder[k + 1] ELSE "ret"

\* Entering light_session(ph).
EnterSession(ph) ==
  /\ pc' = SessionOrder[1]
  /\ phase' = ph
  /\ si' = 1 /\ ci' = 1 /\ qi' = 0
  /\ log' = Append(log, ph)
  /\ held' = {} /\ discharged' = {}
  /\ calls' = NoCalls(sources)
  /\ startLen' = Lengths(sources)
  /\ first' = Len(users)

\* The loop test of line 198 with <= for <.
LoopTestLe(t, st) == t <= st

\* The loop test of line 198.
LoopTest(t, st) == t < st

\* play, lines 198-200: the loop test, the clock, the call of the first session.
PlayLoop ==
  /\ pc = "while"
  /\ IF LoopTest(time, stop_time)
     THEN /\ time' = time + (2 * LIGHT_TIME)
          /\ EnterSession("NORTH_SOUTH")
     ELSE /\ pc' = "done"
          /\ UNCHANGED <<time, phase, si, ci, qi, hist>>
  /\ UNCHANGED <<stop_time, users, sources, result, ret, holds>>
  /\ Observe(<<>>)

\* light_session, lines 161-175 for one source and one category.  ret is
\* what the Source.add calls of the step returned, "none" if there were none.
Arrive(u) ==
  /\ pc = "arrive"
  /\ LET d == Direction[si]
         c == UserCategory[ci]
         n == NumberAdded(c, u)
         r == AddUsers([users |-> users, lanes |-> sources[d], ok |-> TRUE], c, n)
     IN /\ users' = r.users
        /\ sources' = [sources EXCEPT ![d] = r.lanes]
        /\ ret' = IF n = 0 THEN "none" ELSE IF r.ok THEN "ok" ELSE "fail"
  /\ IF ci < Len(UserCategory) THEN /\ ci' = ci + 1
                                    /\ UNCHANGED <<si, pc>>
     ELSE IF si < Len(Direction) THEN /\ ci' = 1
                                      /\ si' = si + 1
                                      /\ UNCHANGED pc
     ELSE /\ ci' = 1
          /\ si' = 1
          /\ pc' = NextBlock("arrive")
  /\ startLen' = IF pc' = "discharge" THEN Lengths(sources') ELSE startLen
  /\ UNCHANGED <<stop_time, time, phase, qi, result, log, held, discharged,
                 calls, first, holds>>
  /\ Observe(<<Direction[si], UserCategory[ci], u>>)

\* light_session, lines 178-179 / 187-188 for one source.
Hold ==
  /\ pc = "hold"
  /\ LET d == RedAxis(phase)[si]
     IN /\ users' = SourceHold(users, sources[d])
        /\ held' = held \cup {d}
  /\ IF si < Len(RedAxis(phase))
     THEN /\ si' = si + 1
          /\ UNCHANGED pc
     ELSE /\ si' = 1
          /\ pc' = NextBlock("hold")
  /\ startLen' = IF pc' = "discharge" THEN Lengths(sources) ELSE startLen
  /\ ret' = "none"
  /\ UNCHANGED <<stop_time, time, sources, phase, ci, qi, result, log,
                 discharged, calls, first, holds>>
  /\ Observe(<<>>)

\* light_session, lines 181-185 / 189-193: one source.discharge(category)
\* call, and the three loops moved on (every num_cleared is positive).
Discharge ==
  /\ pc = "discharge"
  /\ LET d == GreenAxis(phase)[si]
         c == UserCategory[ci]
         r == SourceDischarge(users, sources[d], c)
     IN /\ users' = r.users
        /\ sources' = [sources EXCEPT ![d] = r.lanes]
        /\ discharged' = discharged \cup {d}
        /\ calls' = [calls EXCEPT ![d] =
                       [l \in 1..Len(sources[d]) |->
                          IF l \in r.called THEN @[l] + 1 ELSE @[l]]]
        /\ IF qi + 1 < NumCleared(c) THEN /\ qi' = qi + 1
                                          /\ UNCHANGED <<ci, si, pc>>
           ELSE IF ci < Len(UserCategory) THEN /\ qi' = 0
                                               /\ ci' = ci + 1
                                               /\ UNCHANGED <<si, pc>>
           ELSE IF si < Len(GreenAxis(phase)) THEN /\ qi' = 0
                                                   /\ ci' = 1
                                                   /\ si' = si + 1
                                                   /\ UNCHANGED pc
           ELSE /\ qi' = 0
                /\ ci' = 1
                /\ si' = 1
                /\ pc' = NextBlock("discharge")
  /\ ret' = "none"
  /\ UNCHANGED <<stop_time, time, phase, result, log, held, startLen,
                 first, holds>>
  /\ Observe(<<>>)

\* play, lines 200-201: a session returns; the second one is called, or the
\* loop test is next.
SessionReturn ==
  /\ pc = "ret"
  /\ IF phase = "NORTH_SOUTH"
     THEN EnterSession("EAST_WEST")
     ELSE /\ pc' = "while"
          /\ UNCHANGED <<phase, si, ci, qi, hist>>
  /\ UNCHANGED <<stop_time, time, users, sources, result, ret, holds>>
  /\ Observe(<<>>)

\* category_intersection_times without the `not user.cleared` of line 207.
category_intersection_times_all(us, c) ==
  LET x == SelectSeq(us, LAMBDA u : ~(u.category # c))
  IN [i \in 1..Len(x) |-> x[i].intersection_time.ip]

\* Simulation.category_intersection_times: the times of the cleared Users
\* of the category, in list order (integers, see line 98).
category_intersection_times(us, c) ==
  LET x == SelectSeq(us, LAMBDA u : ~((~u.cleared) \/ u.category # c))
  IN [i \in 1..Len(x) |-> x[i].intersection_time.ip]

\* sum(l[lo..hi]), an integer sum, so in any order.
RECURSIVE Sum(_, _, _)
Sum(l, lo, hi) ==
  IF lo > hi THEN 0
  ELSE IF lo = hi THEN l[lo]
  ELSE Sum(l, lo, (lo + hi) \div 2) + Sum(l, ((lo + hi) \div 2) + 1, hi)

\* round(len(x), -3)
RoundThousands(n) == 1000 * RoundDiv(n, 1000)

\* round(Simulation.average(x)) of a non-empty list of integers.
RoundAverage(l) == RoundDiv(Sum(l, 1, Len(l)), Len(l))

\* The dict of lines 221-225 with 0 for the -1 of line 224.
RunResultSentinelZero(us) ==
  [c \in Categories |->
     LET x == category_intersection_times(us, c)
     IN <<RoundThousands(Len(x)), IF x # <<>> THEN RoundAverage(x) ELSE 0>>]

\* The dict of lines 221-225.
RunResult(us) ==
  [c \in Categories |->
     LET x == category_intersection_times(us, c)
     IN <<RoundThousands(Len(x)), IF x # <<>> THEN RoundAverage(x) ELSE -1>>]

\* run, lines 221-225, after play.
Run ==
  /\ pc = "done"
  /\ result' = RunResult(users)
  /\ pc' = "returned"
  /\ UNCHANGED <<stop_time, time, users, sources, phase, si, ci, qi, ret,
                 hist, holds>>
  /\ Observe(<<>>)

Next ==
  \/ PlayLoop
  \/ \E u \in Draws : Arrive(u)
  \/ Hold
  \/ Discharge
  \/ SessionReturn
  \/ Run

Spec == Init /\ [][Next]_vars

\* The scheduler under light traffic: the draws that make a batch of at most
\* one User.  play and run are sequential code, so a step that can be taken
\* is taken.
PlayDraws == {0, DrawDen \div 40}

NextPlay ==
  \/ PlayLoop
  \/ \E u \in PlayDraws : Arrive(u)
  \/ Hold
  \/ Discharge
  \/ SessionReturn
  \/ Run

FairSpec == Init /\ [][NextPlay]_vars /\ WF_vars(NextPlay)

(* ---- The Lane / Source interface, called in any order ---- *)
(* A second specification: one Simulation object whose Sources and Lanes   *)
(* are driven directly, one call per step, by a caller that keeps every    *)
(* queued User in Simulation.users as lines 173-175 do.                    *)

\* At most MaxApiUsers Users are created and MaxApiHolds holds are made.
MaxApiUsers == 3

MaxApiHolds == 2

CfgApi == [NoLanes EXCEPT !["NORTH"] = <<<<"CAR", 2>>, <<"RT", 0>>, <<"PEDESTRIAN", 1>>>>,
                          !["EAST"] = <<<<"CAR", 1>>>>]

\* Categories the driver hands to the Source and Lane calls: two that
\* NORTH has lanes for, and one (RT) whose NORTH lane list is empty and
\* which EAST has no entry for.
ApiCategories == {"CAR", "RT", "PEDESTRIAN"}

\* Sources the driver calls: the two with lanes and one with none.
ApiDirections == {"NORTH", "EAST", "SOUTH"}

InitApi ==
  /\ stop_time = 0
  /\ time = 0
  /\ users = <<>>
  /\ sources = [d \in Directions |-> NewSource(CfgApi[d])]
  /\ pc = "api"
  /\ phase = "NORTH_SOUTH"
  /\ si = 1 /\ ci = 1 /\ qi = 0
  /\ result = <<>>
  /\ ret = "none"
  /\ log = <<>>
  /\ held = {} /\ discharged = {}
  /\ startLen = Lengths(sources)
  /\ calls = NoCalls(sources)
  /\ first = 0
  /\ holds = 0
  /\ twin = TwinOff

ApiFrame == UNCHANGED <<stop_time, time, pc, phase, si, ci, qi, result, hist, twin>>

\* user = User(c); if sources[d].add(user): users.append(user)
ApiAdd(d, c) ==
  /\ pc = "api"
  /\ Len(users) < MaxApiUsers
  /\ LET r == AddUser([users |-> users, lanes |-> sources[d], ok |-> TRUE], c)
     IN /\ users' = r.users
        /\ sources' = [sources EXCEPT ![d] = r.lanes]
        /\ ret' = IF r.ok THEN "ok" ELSE "fail"
  /\ UNCHANGED holds
  /\ ApiFrame

\* sources[d].hold()
ApiHold(d) ==
  /\ pc = "api"
  /\ holds < MaxApiHolds
  /\ users' = SourceHold(users, sources[d])
  /\ holds' = holds + 1
  /\ ret' = "none"
  /\ UNCHANGED sources
  /\ ApiFrame

\* sources[d].discharge(c)
ApiDischarge(d, c) ==
  /\ pc = "api"
  /\ LET r == SourceDischarge(users, sources[d], c)
     IN /\ users' = r.users
        /\ sources' = [sources EXCEPT ![d] = r.lanes]
  /\ ret' = "none"
  /\ UNCHANGED holds
  /\ ApiFrame

\* user = User(c); sources[d].lanes[l].add(user), kept in users unless
\* the call raised ValueError.
ApiLaneAdd(d, l, c) ==
  /\ pc = "api"
  /\ Len(users) < MaxApiUsers
  /\ l \in 1..Len(sources[d])
  /\ LET r == LaneAdd(sources[d][l], Len(users) + 1, c)
     IN IF r.err
        THEN /\ ret' = "ValueError"
             /\ users' = users
             /\ sources' = [sources EXCEPT ![d][l] = r.lane]
        ELSE /\ ret' = "ok"
             /\ users' = Append(users, NewUser(c))
             /\ sources' = [sources EXCEPT ![d][l] = r.lane]
  /\ UNCHANGED holds
  /\ ApiFrame

NextSource ==
  \/ \E d \in ApiDirections, c \in ApiCategories : ApiAdd(d, c)
  \/ \E d \in ApiDirections : ApiHold(d)
  \/ \E d \in ApiDirections, c \in ApiCategories : ApiDischarge(d, c)

SpecSource == InitApi /\ [][NextSource]_vars

NextLane ==
  \/ NextSource
  \/ \E d \in ApiDirections, l \in 1..3, c \in ApiCategories : ApiLaneAdd(d, l, c)

SpecLane == InitApi /\ [][NextLane]_vars

TypeOK ==
  /\ pc \in {"while", "arrive", "hold", "discharge", "ret", "done", "returned", "api"}
  /\ \A i \in 1..Len(users) : users[i].category \in Categories

(* ---- Properties ---- *)

\* The lanes of all four Sources, as <<direction, position>>.
AllLanes == {<<d, l>> : d \in Directions, l \in 1..3} \cap
            {x \in Directions \X (1..3) : x[2] <= Len(sources[x[1]])}

LaneAt(x) == sources[x[1]][x[2]]

InSomeQueue(i) == \E x \in AllLanes : i \in Queued(LaneAt(x))

HasLane(src, c) == \E l \in 1..Len(src) : src[l].category = c

\* C1: from one hold / discharge call to the next the intersection_time of a
\* User never decreases (the rounding of the pop included), and it is never
\* negative.
C1_TimeNeverDecreases ==
  [][/\ Len(users') >= Len(users)
     /\ \A i \in 1..Len(users) :
          /\ FLe(FInt(0), users[i].intersection_time)
          /\ FLe(FInt(0), users'[i].intersection_time)
          /\ FLe(users[i].intersection_time, users'[i].intersection_time)]_vars

\* A User that was held and then popped: its rounded time exceeds LIGHT_TIME.
C1_Witness ==
  \E i \in 1..Len(users) :
    users[i].cleared /\ users[i].intersection_time.ip > LIGHT_TIME

\* C2: every cleared User has wait_time() >= 0, and the mean run reports for
\* a category with a cleared User is at least the clear_time of the category.
C2_ClearedAtLeastClearTime ==
  /\ \A i \in 1..Len(users) : users[i].cleared => wait_time(users[i]) >= 0
  /\ pc = "returned" =>
       \A c \in Categories : result[c][2] # -1 => result[c][2] >= clear_time(c)

\* C3: a User of the list is cleared exactly when it is in no lane queue;
\* cleared turns true only in the step that pops the User from the head of
\* its queue, and never turns false again.
C3_ClearedIffPopped ==
  /\ [](\A i \in 1..Len(users) : users[i].cleared <=> ~InSomeQueue(i))
  /\ [][\A i \in 1..Len(users) :
          /\ users[i].cleared => users'[i].cleared
          /\ (~users[i].cleared /\ users'[i].cleared) =>
               \E x \in AllLanes :
                 /\ LaneAt(x).users # <<>>
                 /\ Head(LaneAt(x).users) = i
                 /\ sources'[x[1]][x[2]].users = Tail(LaneAt(x).users)]_vars

\* Some User has been popped while another one is still queued.
C3_Witness ==
  \E i, j \in 1..Len(users) :
    users[i].cleared /\ ~users[j].cleared /\ InSomeQueue(j)

\* C4: while a Source has no lane of a category, Source.add of a User of it
\* returns failure, the arrival step changes no lane and does not grow the
\* list, and no User of that category is queued at that Source.
C4_NoLaneDrops ==
  /\ [](\A x \in AllLanes : \A i \in Queued(LaneAt(x)) :
          HasLane(sources[x[1]], users[i].category))
  /\ [](\A d \in Directions, c \in Categories :
          ~HasLane(sources[d], c) =>
            LET r == SourceAdd(sources[d], Len(users) + 1, c)
            IN ~r.ok /\ r.lanes = sources[d])
  /\ [][(pc = "arrive" /\ ~HasLane(sources[Direction[si]], UserCategory[ci])) =>
          /\ users' = users
          /\ sources' = sources
          /\ ret' \in {"none", "fail"}]_vars

\* Cars have just been refused by the SOUTH Source, whose lookup gives CAR
\* zero lanes and RT one lane.
C4_Witness ==
  /\ pc = "arrive" /\ Direction[si] = "SOUTH" /\ UserCategory[ci] = "RT"
  /\ ret = "fail"
  /\ sources["SOUTH"] # <<>>

\* C5: when a session returns, every lane of category c of a green Source
\* has had floor(LIGHT_TIME * overlaps / clear_time) discharge calls (60 for
\* cars) and holds max(0, n - that number) Users, n being its length when the
\* discharges began.
C5_DischargeQuanta ==
  pc = "ret" =>
    \A x \in AllLanes :
      LET c == LaneAt(x).category
          quanta == (LIGHT_TIME * overlaps(c)) \div clear_time(c)
          n == startLen[x[1]][x[2]]
      IN /\ c = "CAR" => quanta = 60
         /\ x[1] \in {GreenAxis(phase)[k] : k \in 1..2} =>
              /\ calls[x[1]][x[2]] = quanta
              /\ Len(LaneAt(x).users) = IF n > quanta THEN n - quanta ELSE 0

\* A car lane that began the discharges with 61 Users is left with one, and
\* another one that began with 60 is empty.
C5_Witness ==
  /\ pc = "ret"
  /\ \E x \in AllLanes : startLen[x[1]][x[2]] = 61 /\ Len(LaneAt(x).users) = 1
  /\ \E x \in AllLanes : startLen[x[1]][x[2]] = 60 /\ Len(LaneAt(x).users) = 0

\* The two directions a phase gives the green signal to.
AxisOf(ph) == IF ph = "NORTH_SOUTH" THEN {"NORTH", "SOUTH"} ELSE {"EAST", "WEST"}

InSession == pc \in {"arrive", "hold", "discharge", "ret"}

\* Phase pairs play has to run for the horizon st.
PairsFor(st) ==
  IF st <= 0 THEN 0 ELSE (st + (2 * LIGHT_TIME) - 1) \div (2 * LIGHT_TIME)

C7_PhasesAlternate ==
  /\ \A k \in 1..Len(log) :
       log[k] = IF k % 2 = 1 THEN "NORTH_SOUTH" ELSE "EAST_WEST"
  /\ pc \in {"while", "done", "returned"} => Len(log) % 2 = 0
  /\ InSession =>
       /\ log # <<>> /\ phase = log[Len(log)]
       /\ discharged \subseteq AxisOf(phase)
       /\ held \subseteq Directions \ AxisOf(phase)
       /\ held \cap discharged = {}
  /\ pc = "ret" =>
       /\ discharged = AxisOf(phase)
       /\ held = Directions \ AxisOf(phase)
       /\ Cardinality(held) = 2 /\ Cardinality(discharged) = 2

\* The fourth session, an EAST_WEST one, returns.
C7_Witness ==
  pc = "ret" /\ Len(log) = 4 /\ held = {"NORTH", "SOUTH"}

\* C8: in a session no hold or discharge precedes an arrival, no User is
\* created after the arrivals, both holds precede every discharge; when the
\* session returns a User created in it that is queued at a red Source has
\* intersection_time LIGHT_TIME, and one created in it is still queued at a
\* green Source only if that queue was longer than the number of quanta.
C8_ArrivalsHoldsDischarges ==
  /\ [](pc = "arrive" => held = {} /\ discharged = {})
  /\ [](pc = "hold" => discharged = {})
  /\ [](pc = "discharge" => held = Directions \ AxisOf(phase))
  /\ [][pc # "arrive" => Len(users') = Len(users)]_vars
  /\ [](pc = "ret" =>
          \A x \in AllLanes : \A i \in Queued(LaneAt(x)) :
            i > first =>
              IF x[1] \in AxisOf(phase)
              THEN startLen[x[1]][x[2]] >
                     (LIGHT_TIME * overlaps(LaneAt(x).category))
                        \div clear_time(LaneAt(x).category)
              ELSE users[i].intersection_time = FInt(LIGHT_TIME))

\* A session returns in which one new User was cleared and another new one
\* waits at a red Source.
C8_Witness ==
  /\ pc = "ret"
  /\ \E i \in (first + 1)..Len(users) : users[i].cleared
  /\ \E x \in AllLanes : \E i \in Queued(LaneAt(x)) :
       i > first /\ x[1] \notin AxisOf(phase)

\* C9: Source.add of a User whose category has a lane appends it to the lane
\* that has the fewest Users among the lanes of that category of the Source,
\* the earliest such lane on a tie, and changes no other lane.
C9_LeastLoadedLane ==
  [][\A d \in Directions, c \in Categories :
       (ApiAdd(d, c) /\ HasLane(sources[d], c)) =>
         LET match == {l \in 1..Len(sources[d]) : sources[d][l].category = c}
             best == CHOOSE l \in match : \A k \in match :
                       \/ Len(sources[d][l].users) < Len(sources[d][k].users)
                       \/ /\ Len(sources[d][l].users) = Len(sources[d][k].users)
                          /\ l <= k
         IN /\ ret' = "ok"
            /\ Len(users') = Len(users) + 1
            /\ sources' = [sources EXCEPT ![d][best].users =
                             Append(@, Len(users) + 1)]]_vars

\* Three cars added to NORTH: the first lane on a tie, then the shorter
\* second lane, then the first lane again.
C9_Witness ==
  /\ ret = "ok"
  /\ sources["NORTH"][1].users = <<1, 3>>
  /\ sources["NORTH"][2].users = <<2>>

\* C10: every queued User has the category of its Lane; Lane.add of a User
\* of another category raises and changes no queue; a queue gets a new
\* member only in a step whose add call succeeded.
C10_LaneCategory ==
  /\ [](\A x \in AllLanes : \A i \in Queued(LaneAt(x)) :
          users[i].category = LaneAt(x).category)
  /\ [][\A d \in Directions, l \in 1..3, c \in Categories :
          (ApiLaneAdd(d, l, c) /\ c # sources[d][l].category) =>
            ret' = "ValueError" /\ sources' = sources /\ users' = users]_vars
  /\ [][\A x \in AllLanes :
          ~(Queued(sources'[x[1]][x[2]]) \subseteq Queued(LaneAt(x))) =>
            /\ ret' = "ok"
            /\ Queued(sources'[x[1]][x[2]]) \ Queued(LaneAt(x)) = {Len(users')}
            /\ Len(users') = Len(users) + 1]_vars

\* A Lane.add has just raised while Users are queued.
C10_Witness ==
  ret = "ValueError" /\ \E x \in AllLanes : LaneAt(x).users # <<>>

\* The Users queued in the lanes of one Source.
QueuedAt(src) == UNION {Queued(src[l]) : l \in 1..Len(src)}

\* C11: a Source.hold call replaces the intersection_time t of every User
\* queued in a lane of that Source by the float sum t + LIGHT_TIME, a larger
\* value, and changes nothing else: the category and the cleared flag of
\* those Users, every other User (the cleared ones and the ones queued at
\* another Source), the list and every queue, members and order.
C11_HoldFrame ==
  [][\A d \in Directions :
       ApiHold(d) =>
         /\ sources' = sources
         /\ Len(users') = Len(users)
         /\ \A i \in 1..Len(users) :
              IF i \in QueuedAt(sources[d])
              THEN /\ users'[i].intersection_time =
                        FAdd(users[i].intersection_time, FInt(LIGHT_TIME))
                   /\ FLt(users[i].intersection_time, users'[i].intersection_time)
                   /\ users[i].intersection_time = FInt(users[i].intersection_time.ip) =>
                        users'[i].intersection_time =
                          FInt(users[i].intersection_time.ip + LIGHT_TIME)
                   /\ users'[i].category = users[i].category
                   /\ users'[i].cleared = users[i].cleared
                   /\ ~users[i].cleared
              ELSE users'[i] = users[i]]_vars

\* NORTH has been held while one of its Users was queued with a fractional
\* time, another User was queued at EAST and a third one was cleared.
C11_Witness ==
  /\ holds > 0
  /\ \E i \in QueuedAt(sources["NORTH"]) :
       users[i].intersection_time.ip = LIGHT_TIME
         /\ users[i].intersection_time.fh # 0
  /\ \E j \in QueuedAt(sources["EAST"]) : users[j].intersection_time = FInt(0)
  /\ \E k \in 1..Len(users) : users[k].cleared

\* The cleared Users of category c in the list.
ClearedOf(c) == {i \in 1..Len(users) : users[i].cleared /\ users[i].category = c}

\* C12: when play is over the dict of run is defined for every category (no
\* average of an empty list is taken); for a category with no cleared User
\* run reports the count 0 and the mean -1, and for a category with a cleared
\* User a mean that is a rounded average, never the sentinel.
C12_EmptySampleSentinel ==
  /\ pc = "done" =>
       \A c \in Categories :
         /\ RunResult(users)[c][2] \in Int
         /\ category_intersection_times(users, c) = <<>> <=> ClearedOf(c) = {}
         /\ ClearedOf(c) = {} => RunResult(users)[c] = <<0, -1>>
  /\ pc = "returned" =>
       \A c \in Categories :
         /\ ClearedOf(c) = {} => result[c] = <<0, -1>>
         /\ ClearedOf(c) # {} => result[c][2] >= 0

\* run has returned a mean for the cyclists and the sentinel for the cars,
\* which have no lane anywhere.
C12_Witness ==
  /\ pc = "returned"
  /\ result["CYCLIST"][2] >= 0
  /\ result["CAR"] = <<0, -1>>
  /\ \A d \in Directions : ~HasLane(sources[d], "CAR")

\* The intersection_time of User i if it is a cleared User of category c,
\* 0 if it is not: the Users of the list, one by one.
ClearedTime(c) ==
  [i \in 1..Len(users) |->
     IF i \in ClearedOf(c) THEN users[i].intersection_time.ip ELSE 0]

\* C13: the sample run aggregates for a category has one entry for each
\* cleared User of that category in the list and no other entry, so the
\* count is rounded from the number of those Users and the mean from the sum
\* of their times; every entry is the time of a User that is in no queue.
C13_SampleIsClearedUsers ==
  pc = "returned" =>
    \A c \in Categories :
      LET x == category_intersection_times(users, c)
          n == Cardinality(ClearedOf(c))
          total == Sum(ClearedTime(c), 1, Len(users))
      IN /\ Len(x) = n
         /\ Sum(x, 1, Len(x)) = total
         /\ \A i \in ClearedOf(c) : ~InSomeQueue(i)
         /\ result[c] = <<RoundThousands(n),
                          IF n = 0 THEN -1 ELSE RoundDiv(total, n)>>

\* run has returned while cars are still queued, after other cars were
\* cleared.
C13_Witness ==
  /\ pc = "returned"
  /\ ClearedOf("CAR") # {}
  /\ \E i \in 1..Len(users) :
       users[i].category = "CAR" /\ ~users[i].cleared /\ InSomeQueue(i)
            /\ users[i].intersection_time.ip > result["CAR"][2]

(* ---- A run and its replay ---- *)
(* A third specification: Simulation(stop_time, lookup).run() is recorded,  *)
(* with every value random.random() returned, and then a second Simulation *)
(* with the same arguments is run on the recorded values, consumed one per *)
(* call in the order they were produced.                                   *)

CfgTwin == [NoLanes EXCEPT !["NORTH"] = <<<<"PEDESTRIAN", 1>>>>,
                           !["EAST"] = <<<<"CAR", 1>>>>]

TwinScenario == [lookup |-> CfgTwin, stop_time |-> LIGHT_TIME]

InitTwin ==
  /\ Construct(TwinScenario)
  /\ twin = [mode |-> "record", lookup |-> TwinScenario.lookup, tape |-> <<>>,
             trace |-> <<Snapshot>>, pos |-> 1, drawn |-> 0]

\* The values random.random() may return at this point of the recorded run:
\* two where the User has a lane to go to, one where it is dropped.
TwinDraws ==
  IF HasLane(sources[Direction[si]], UserCategory[ci])
  THEN PlayDraws
  ELSE {DrawDen \div 40}

\* Lines 161-175 in the recorded run, and in the replay, where
\* random.random() returns the next recorded value.
TwinArrive(u) ==
  /\ pc = "arrive"
  /\ twin.mode = "replay" => u = twin.tape[twin.drawn + 1][3]
  /\ Arrive(u)

\* The recorded run has returned: the second Simulation is constructed with
\* the same arguments.
TwinRestart ==
  /\ pc = "returned"
  /\ twin.mode = "record"
  /\ stop_time' = stop_time
  /\ time' = 0
  /\ users' = <<>>
  /\ sources' = [d \in Directions |-> NewSource(twin.lookup[d])]
  /\ pc' = "while"
  /\ phase' = "NORTH_SOUTH"
  /\ si' = 1 /\ ci' = 1 /\ qi' = 0
  /\ result' = <<>>
  /\ ret' = "none"
  /\ log' = <<>>
  /\ held' = {} /\ discharged' = {}
  /\ startLen' = Lengths(sources')
  /\ calls' = NoCalls(sources')
  /\ first' = 0
  /\ holds' = 0
  /\ twin' = [twin EXCEPT !.mode = "replay", !.pos = 1, !.drawn = 0]

NextTwin ==
  \/ PlayLoop
  \/ \E u \in TwinDraws : TwinArrive(u)
  \/ Hold
  \/ Discharge
  \/ SessionReturn
  \/ Run
  \/ TwinRestart

SpecTwin == InitTwin /\ [][NextTwin]_vars

Rare(c) == 10 * LIGHT_TIME < 8 * period(c)

\* C15: for a draw U = u / DrawDen and a category with expected = LIGHT_TIME
\* / period, number_added is 1 if U < expected and 0 if not when expected <
\* 0.8, and otherwise the integer nearest to expected * 2 * U (the even one
\* on a tie), which is between 0 and 2 * expected; in a session of either
\* phase the step for a source and a category it has a lane for creates one
\* of these numbers of Users, each one new (time 0, not cleared) and queued
\* at that source, and the step for a category it has no lane for keeps none.
C15_ArrivalCounts ==
  /\ [](pc = "while" =>
          \A c \in Categories, u \in 0..(DrawDen - 1) :
            LET n == NumberAdded(c, u)
                den == period(c) * DrawDen
                num == 2 * LIGHT_TIME * u
            IN /\ n \in Nat
               /\ IF Rare(c)
                  THEN /\ n \in {0, 1}
                       /\ n = 1 <=> u * period(c) < LIGHT_TIME * DrawDen
                  ELSE /\ n * period(c) <= 2 * LIGHT_TIME
                       /\ 2 * (n * den - num) <= den
                       /\ 2 * (num - n * den) <= den
                       /\ 2 * (n * den - num) \in {den, -den} => n % 2 = 0)
  /\ [][pc = "arrive" =>
          LET d == Direction[si]
              c == UserCategory[ci]
              k == Len(users') - Len(users)
          IN IF HasLane(sources[d], c)
             THEN /\ k \in {NumberAdded(c, u) : u \in Draws}
                  /\ k >= 0
                  /\ IF Rare(c) THEN k <= 1 ELSE k * period(c) <= 2 * LIGHT_TIME
                  /\ \A i \in (Len(users) + 1)..Len(users') :
                       users'[i] = NewUser(c) /\ i \in QueuedAt(sources'[d])
             ELSE k = 0 /\ sources' = sources]_vars

\* The EAST Source, green in this session, has just received 2 * expected =
\* 60 cars, after the two Sources of its axis received 60 cars each in the
\* session before, in which they were red.
C15_Witness ==
  /\ pc = "arrive" /\ phase = "EAST_WEST"
  /\ Direction[si] = "EAST" /\ UserCategory[ci] = "RT"
  /\ first = 4 * LIGHT_TIME
  /\ Len(users) - first = 2 * LIGHT_TIME

\* C16: the Users of a queue stand in the order they were added (Users are
\* added when created, so in the order of the list); a step removes at most
\* the head of a queue, which is then cleared, leaves the other members in
\* place and in order, uncleared, and puts the Users it adds behind them; so
\* of two Users added to one lane the later one is never cleared while the
\* earlier one is queued.
C16_LaneFifo ==
  /\ [](\A x \in AllLanes :
          LET q == LaneAt(x).users
          IN \A a, b \in 1..Len(q) : a < b => q[a] < q[b])
  /\ [][\A x \in AllLanes :
          LET q == LaneAt(x).users
              q2 == sources'[x[1]][x[2]].users
          IN \E k \in {0, 1} :
               /\ k <= Len(q)
               /\ Len(q2) >= Len(q) - k
               /\ SubSeq(q2, 1, Len(q) - k) = SubSeq(q, k + 1, Len(q))
               /\ k = 1 => ~users[q[1]].cleared /\ users'[q[1]].cleared
               /\ \A a \in (k + 1)..Len(q) : ~users'[q[a]].cleared
               /\ \A a \in (Len(q) - k + 1)..Len(q2) :
                    q2[a] > Len(users) /\ q2[a] <= Len(users')]_vars

\* The first of three pedestrians added to one lane has been cleared and the
\* other two, held since, are queued in the order they were added.
C16_Witness ==
  /\ users # <<>> /\ users[1].cleared
  /\ \E x \in AllLanes :
       /\ LaneAt(x).users = <<2, 3>>
       /\ LaneAt(x).category = "PEDESTRIAN"
  /\ holds > 0

\* The queue lengths of all lanes, source by source (a Source of the model
\* has at most three lanes).
QueueLengths ==
  [k \in 1..(3 * Len(Direction)) |->
     LET d == Direction[((k - 1) \div 3) + 1]
         l == ((k - 1) % 3) + 1
     IN IF l <= Len(sources[d]) THEN Len(sources[d][l].users) ELSE 0]

Uncleared == {i \in 1..Len(users) : ~users[i].cleared}

\* C17: no step removes or replaces a User of the list; every queued User is
\* in the list; no queue holds a User twice, no two queues share a User, and
\* the queued Users are exactly the uncleared Users of the list; so the
\* length of the list is the number of cleared Users plus the sum of the
\* queue lengths.
C17_Conservation ==
  /\ [][/\ Len(users') >= Len(users)
        /\ \A i \in 1..Len(users) : users'[i].category = users[i].category]_vars
  /\ [](\A x \in AllLanes :
          /\ Queued(LaneAt(x)) \subseteq 1..Len(users)
          /\ Cardinality(Queued(LaneAt(x))) = Len(LaneAt(x).users)
          /\ \A y \in AllLanes :
               x # y => Queued(LaneAt(x)) \cap Queued(LaneAt(y)) = {})
  /\ [](UNION {Queued(LaneAt(x)) : x \in AllLanes} = Uncleared)
  /\ [](Len(users) =
          Cardinality({i \in 1..Len(users) : users[i].cleared})
            + Sum(QueueLengths, 1, Len(QueueLengths)))

\* A session returns with Users cleared, Users queued at two Sources, and
\* the list longer than any queue.
C17_Witness ==
  /\ pc = "ret"
  /\ Cardinality(Uncleared) < Len(users)
  /\ \E x, y \in AllLanes :
       x[1] # y[1] /\ LaneAt(x).users # <<>> /\ LaneAt(y).users # <<>>

\* C18: the intersection_time of a cleared User is an integer: the float it
\* had accumulated when it was popped (the share of that call included),
\* rounded in the step that clears it; no later step changes a cleared User.
C18_ClearedTimeFixed ==
  /\ [](\A i \in 1..Len(users) :
          users[i].cleared =>
            users[i].intersection_time = FInt(users[i].intersection_time.ip))
  /\ [][\A i \in 1..Len(users) :
          /\ users[i].cleared => users'[i] = users[i]
          /\ (~users[i].cleared /\ users'[i].cleared) =>
               users'[i].intersection_time =
                 FInt(PyRound(FAdd(users[i].intersection_time,
                                   Share[users[i].category])))]_vars

\* A pedestrian cleared with time 1 (the share 15/18 rounded) keeps that
\* time while its Source is held and the next pedestrian, held for
\* LIGHT_TIME, is discharged without being popped.
C18_Witness ==
  /\ Len(users) >= 2
  /\ users[1].cleared /\ users[1].category = "PEDESTRIAN"
  /\ users[1].intersection_time = FInt(1)
  /\ \E i \in 2..Len(users) :
       /\ users[i].category = "PEDESTRIAN" /\ ~users[i].cleared
       /\ users[i].intersection_time.ip >= LIGHT_TIME
       /\ users[i].intersection_time.fh # 0

\* C19: with Users routed by Source.add only, two lanes of one category of
\* one Source never differ by more than one User in length, and of two such
\* lanes the one created first is never the shorter.
C19_LaneBalance ==
  \A x, y \in AllLanes :
    (x[1] = y[1] /\ LaneAt(x).category = LaneAt(y).category) =>
      /\ Len(LaneAt(x).users) - Len(LaneAt(y).users) \in {-1, 0, 1}
      /\ x[2] < y[2] => Len(LaneAt(x).users) >= Len(LaneAt(y).users)

\* After two cars were discharged from the two car lanes of NORTH and the
\* Source was held, a third car stands alone in the first lane.
C19_Witness ==
  /\ Len(sources["NORTH"][1].users) = 1
  /\ Len(sources["NORTH"][2].users) = 0
  /\ Cardinality({i \in 1..Len(users) : users[i].cleared /\ users[i].category = "CAR"}) = 2
  /\ holds > 0

(* ---- A busy pedestrian crossing ---- *)
(* A fourth specification: one pedestrian lane at EAST, run for two phase   *)
(* pairs with the lightest and the heaviest arrivals, so that pedestrians   *)
(* stay queued through whole green phases; the state in which the running  *)
(* session began is kept.                                                  *)

CfgBusy == [NoLanes EXCEPT !["EAST"] = <<<<"PEDESTRIAN", 1>>>>]

BusyScenario == [lookup |-> CfgBusy, stop_time |-> (2 * LIGHT_TIME) + 1]

InitBusy ==
  /\ Construct(BusyScenario)
  /\ twin = [mode |-> "session", lookup |-> BusyScenario.lookup, tape |-> <<>>,
             trace |-> <<Snapshot>>, pos |-> 1, drawn |-> 0]

\* The values random.random() may return: the least and the greatest one
\* where the User has a lane to go to, the least one where it is dropped.
BusyDraws ==
  IF HasLane(sources[Direction[si]], UserCategory[ci])
  THEN {0, DrawDen - 1}
  ELSE {0}

BusyArrive(u) == pc = "arrive" /\ Arrive(u)

NextBusy ==
  \/ PlayLoop
  \/ \E u \in BusyDraws : BusyArrive(u)
  \/ Hold
  \/ Discharge
  \/ SessionReturn
  \/ Run

SpecBusy == InitBusy /\ [][NextBusy]_vars

\* The intersection_time User i had when the running session began (0 for
\* a User created in the session).
StartTime(i) ==
  LET us == twin.trace[1][3]
  IN IF i <= Len(us) THEN us[i].intersection_time ELSE FInt(0)

\* The exact sum x + n of a double and an integer, not rounded.
Plus(x, n) == [x EXCEPT !.ip = @ + n]

\* User i has been queued at a green Source since the entry of the running
\* session, or since it arrived at the beginning of the session.
QueuedThroughGreen(i) ==
  /\ ~users[i].cleared
  /\ \E x \in AllLanes : x[1] \in AxisOf(phase) /\ i \in Queued(LaneAt(x))

\* The time of a User that starts a green phase with time x and is queued in
\* a lane whose discharge is called n times without popping it: line 94, n
\* times (the first half of the calls, then the rest).
RECURSIVE Accrue(_, _, _)
Accrue(x, inc, n) ==
  IF n = 0 THEN x
  ELSE IF n = 1 THEN FAdd(x, inc)
  ELSE LET half == Accrue(x, inc, n \div 2)
       IN IF half.ip \in Int THEN Accrue(half, inc, n - (n \div 2)) ELSE half

\* x is less than 2^-26 away from an integer.
NearInteger(x) == x.fh \in {0, HiBase - 1}

\* C20 as stated: when a session returns no User has gained more than
\* LIGHT_TIME since the session began, and a User that was queued at a green
\* Source through the whole session has gained LIGHT_TIME.
C20_GainAtMostLightTime ==
  pc = "ret" =>
    \A i \in 1..Len(users) :
      /\ FLe(users[i].intersection_time, Plus(StartTime(i), LIGHT_TIME))
      /\ QueuedThroughGreen(i) =>
           users[i].intersection_time = Plus(StartTime(i), LIGHT_TIME)

\* C20, amended: to the nearest second no User gains more than LIGHT_TIME
\* in a session.  A held User gets the float sum of its time and LIGHT_TIME.
\* A User queued through a whole green phase gets its time plus quanta float
\* additions of clear_time / overlaps: exactly LIGHT_TIME more for CAR and
\* RT, whose shares 0.5 and 2.0 are exact, and for CYCLIST and PEDESTRIAN,
\* whose share 5/6 is not, a value that rounds to LIGHT_TIME more and is
\* less than 2^-26 away from it, above or below.  A User popped in the
\* session that began it with an integer time gains at most LIGHT_TIME.
C20_GainWithinRounding ==
  /\ pc = "while" =>
       \A c \in Categories, t0 \in {0, LIGHT_TIME, 2 * LIGHT_TIME} :
         LET a == Accrue(FInt(t0), Share[c], NumCleared(c))
         IN /\ PyRound(a) = t0 + LIGHT_TIME
            /\ NearInteger(a)
            /\ c \in {"CAR", "RT"} => a = FInt(t0 + LIGHT_TIME)
  /\ pc = "ret" =>
       \A i \in 1..Len(users) :
         /\ PyRound(users[i].intersection_time)
              <= PyRound(StartTime(i)) + LIGHT_TIME
         /\ (users[i].cleared /\ StartTime(i) = FInt(StartTime(i).ip)) =>
              users[i].intersection_time.ip <= StartTime(i).ip + LIGHT_TIME
         /\ QueuedThroughGreen(i) =>
              /\ users[i].intersection_time =
                   Accrue(StartTime(i), Share[users[i].category],
                          NumCleared(users[i].category))
              /\ PyRound(users[i].intersection_time)
                   = PyRound(StartTime(i)) + LIGHT_TIME
              /\ NearInteger(users[i].intersection_time)
         /\ (~users[i].cleared /\ ~QueuedThroughGreen(i)
               /\ \E x \in AllLanes :
                    x[1] \notin AxisOf(phase) /\ i \in Queued(LaneAt(x))) =>
              users[i].intersection_time =
                FAdd(StartTime(i), FInt(LIGHT_TIME))

\* A session returns in which a pedestrian that began it with time 30.0
\* stayed queued at the green Source and now has a time above 60.
C20_Witness ==
  /\ pc = "ret"
  /\ \E i \in 1..Len(users) :
       /\ QueuedThroughGreen(i)
       /\ StartTime(i) = FInt(LIGHT_TIME)
       /\ users[i].intersection_time.ip = 2 * LIGHT_TIME
       /\ users[i].intersection_time # FInt(2 * LIGHT_TIME)

====
